---- MODULE Spec2Model ----
(***************************************************************************)
(* Model of the buzzline-06-mee streaming pipeline:                        *)
(*   consumers/db_sqlite_mee.py      the SQLite store                      *)
(*   producers/producer_mee.py       the producer                          *)
(*   consumers/kafka_consumer_mee.py the consumer                          *)
(* Three specifications share the variables: SpecStore drives the store's  *)
(* four functions, SpecProducer runs the producer's main(), SpecConsumer   *)
(* runs the consumer's main().                                             *)
(***************************************************************************)
EXTENDS Integers, Sequences, FiniteSets, TLC

VARIABLES
    \* ---- the SQLite database file (db_sqlite_mee.py)
    tableExists,      \* the table streamed_messages exists
    rows,             \* its rows, in rowid order
    seq,              \* sqlite_sequence: the largest id AUTOINCREMENT has given
    returned,         \* the value the last store call returned
    log,              \* the last two lines the store functions logged
    assigned,         \* history: the ids INSERT has given since the table was created
    \* ---- the producer process (producer_mee.py)
    ppc,              \* where main() is
    producer,         \* the variable producer: "None" or "client"
    client,           \* the KafkaProducer object: "absent", "open" or "closed"
    topicCalls,       \* calls of create_kafka_topic made
    sendCalls,        \* calls of producer.send made
    fileLines,        \* the lines of the live data file
    published,        \* the payloads producer.send handed to the broker
    loopMessage,      \* the loop variable message: the message generated last
    nGenerated,       \* messages the generator has yielded
    warned,           \* the WARNING of STEP 4, "" when none was logged
    endedBy,          \* the exception that ended main(), "" when none
    exitCode,         \* the exit code of the process, -1 while it runs
    \* ---- the consumer process (kafka_consumer_mee.py)
    cpc,              \* where main() and consume_messages_from_kafka() are
    consumer,         \* the KafkaConsumer: "None", "open" or "closed"
    topicChecked,     \* what is_topic_available returned: "", "available", "missing"
    user_status_data, \* the global dict: user id -> processed message
    delivered,        \* the payloads the broker has delivered to the consumer
    now,              \* time.time(), in seconds since main() started
    last_update_time, \* the local variable of the consume loop
    renderCount,      \* calls of update_chart made from the consume loop
    cEndedBy          \* the exception that ended the consumer, "" when none

storeVars == <<tableExists, rows, seq, returned, log, assigned>>

prodVars == <<ppc, producer, client, topicCalls, sendCalls, fileLines, published,
              loopMessage, nGenerated, warned, endedBy, exitCode>>

consVars == <<cpc, consumer, topicChecked, user_status_data, delivered, now,
              last_update_time, renderCount, cEndedBy>>

vars == <<storeVars, prodVars, consVars>>

-----------------------------------------------------------------------------
(* Bounds *)

\* ids the store hands out in one run of the model
MaxId == 3

\* messages the producer generates in one run of the model
MaxEvents == 3

\* payloads the broker delivers to the consumer in one run of the model
MaxMsgs == 3

-----------------------------------------------------------------------------
(* Python values.  A value is tagged by the name of its single field, so    *)
(* that a str, an int and None are never equal to one another.             *)

Str(s) == [s |-> s]
Int_(i) == [i |-> i]
None == [none |-> TRUE]

IsStr(v) == DOMAIN v = {"s"}
IsInt(v) == DOMAIN v = {"i"}

\* str(v) of Python, for the values above
PyStr(v) == IF IsStr(v) THEN v.s ELSE IF IsInt(v) THEN ToString(v.i) ELSE "None"

\* A dict with string keys is a function on its set of keys.

-----------------------------------------------------------------------------
(* The store: consumers/db_sqlite_mee.py *)

\* the five columns of streamed_messages beside id; these are also the keys
\* insert_message reads from the message
Columns == {"User ID", "Status", "Log in", "Last Request", "Description"}

\* What SQLite stores in a column of TEXT affinity for a bound Python value:
\* an int is converted to its text, a str is kept, None is NULL.
TextAffinity(v) == IF IsInt(v) THEN Str(ToString(v.i)) ELSE v

\* a line of the log: which function wrote it, at which level, the exception
\* it reports ("" when none) and the argument of the call
LogLine(op, level, err, arg) == [op |-> op, level |-> level, err |-> err, arg |-> arg]
NoLine == LogLine("", "", "", None)
Logged(line) == <<log[2], line>>

IdArg(n) == [id |-> n]

\* The exception a store call raises inside its try block, "" when none.
\* connectOk: sqlite3.connect (and, for init_db, os.makedirs) succeeds.
InitError(connectOk) == IF ~connectOk THEN "OperationalError: unable to open" ELSE ""

InsertError(message, connectOk) ==
    IF ~connectOk THEN "OperationalError: unable to open"
    ELSE IF ~(Columns \subseteq DOMAIN message) THEN "KeyError"
    ELSE IF ~tableExists THEN "OperationalError: no such table"
    ELSE ""

QueryError(connectOk) ==
    IF ~connectOk THEN "OperationalError: unable to open"
    ELSE IF ~tableExists THEN "OperationalError: no such table"
    ELSE ""

\* NewRow for a table whose id is INTEGER PRIMARY KEY without AUTOINCREMENT:
\* the id is one above the largest id now in the table
NewRow_rowid(message) ==
    LET ids == {rows[i]["id"].i : i \in 1..Len(rows)}
        top == IF ids = {} THEN 0 ELSE CHOOSE m \in ids : \A n \in ids : n <= m
    IN [c \in Columns \cup {"id"} |->
           IF c = "id" THEN Int_(top + 1) ELSE TextAffinity(message[c])]

\* NewRow with the third and fourth bound parameters in the wrong order
NewRow_swapped(message) ==
    [c \in Columns \cup {"id"} |->
        IF c = "id" THEN Int_(seq + 1)
        ELSE IF c = "Log in" THEN TextAffinity(message["Last Request"])
        ELSE IF c = "Last Request" THEN TextAffinity(message["Log in"])
        ELSE TextAffinity(message[c])]

\* the row INSERT adds: AUTOINCREMENT gives an id above every id given before
NewRow(message) ==
    [c \in Columns \cup {"id"} |->
        IF c = "id" THEN Int_(seq + 1) ELSE TextAffinity(message[c])]

\* init_db without the DROP TABLE: CREATE TABLE IF NOT EXISTS keeps the rows
init_db_no_drop(connectOk) ==
    LET err == InitError(connectOk) IN
    /\ IF err = ""
         THEN /\ tableExists' = TRUE
              /\ UNCHANGED <<rows, seq, assigned>>
         ELSE UNCHANGED <<tableExists, rows, seq, assigned>>
    /\ returned' = None
    /\ log' = Logged(LogLine("init_db", IF err = "" THEN "info" ELSE "error", err, None))

\* init_db: DROP TABLE IF EXISTS, CREATE TABLE, commit; any exception is logged
init_db(connectOk) ==
    LET err == InitError(connectOk) IN
    /\ IF err = ""
         THEN /\ tableExists' = TRUE
              /\ rows' = <<>>
              /\ seq' = 0
              /\ assigned' = {}
         ELSE UNCHANGED <<tableExists, rows, seq, assigned>>
    /\ returned' = None
    /\ log' = Logged(LogLine("init_db", IF err = "" THEN "info" ELSE "error", err, None))

\* insert_message reading the five keys with message.get(key): a missing
\* key is bound as NULL and the row is inserted
insert_message_get(message, connectOk) ==
    LET err == IF ~connectOk THEN "OperationalError: unable to open"
               ELSE IF ~tableExists THEN "OperationalError: no such table" ELSE ""
        row == [c \in Columns \cup {"id"} |->
                   IF c = "id" THEN Int_(seq + 1)
                   ELSE IF c \in DOMAIN message THEN TextAffinity(message[c]) ELSE None]
    IN
    /\ IF err = ""
         THEN /\ rows' = Append(rows, row)
              /\ seq' = seq + 1
              /\ assigned' = assigned \cup {seq + 1}
         ELSE UNCHANGED <<rows, seq, assigned>>
    /\ UNCHANGED tableExists
    /\ returned' = None
    /\ log' = Logged(LogLine("insert_message", IF err = "" THEN "info" ELSE "error", err, message))

\* insert_message: INSERT one row from the five keys, commit; any exception
\* (a missing key included) is logged and the call returns
insert_message(message, connectOk) ==
    LET err == InsertError(message, connectOk) IN
    /\ IF err = ""
         THEN /\ rows' = Append(rows, NewRow(message))
              /\ seq' = seq + 1
              /\ assigned' = assigned \cup {NewRow(message)["id"].i}
         ELSE UNCHANGED <<rows, seq, assigned>>
    /\ UNCHANGED tableExists
    /\ returned' = None
    /\ log' = Logged(LogLine("insert_message", IF err = "" THEN "info" ELSE "error", err, message))

\* DELETE ... WHERE id <= ?
DeleteWhere_le(rs, message_id) == SelectSeq(rs, LAMBDA r : r["id"].i > message_id)

\* the rows DELETE ... WHERE id = ? leaves
DeleteWhere(rs, message_id) == SelectSeq(rs, LAMBDA r : r["id"] # Int_(message_id))

\* delete_message: DELETE by id, commit; any exception is logged
delete_message(message_id, connectOk) ==
    LET err == QueryError(connectOk) IN
    /\ rows' = IF err = "" THEN DeleteWhere(rows, message_id) ELSE rows
    /\ UNCHANGED <<tableExists, seq, assigned>>
    /\ returned' = None
    /\ log' = Logged(LogLine("delete_message", IF err = "" THEN "info" ELSE "error", err, IdArg(message_id)))

\* what SELECT * FROM streamed_messages gives, each row as a dict
SelectAll(rs) == [i \in 1..Len(rs) |-> rs[i]]

\* get_all_messages: the rows as a list of dicts, [] on any exception
get_all_messages(connectOk) ==
    LET err == QueryError(connectOk) IN
    /\ returned' = IF err = "" THEN SelectAll(rows) ELSE <<>>
    /\ UNCHANGED <<tableExists, rows, seq, assigned>>
    /\ log' = Logged(LogLine("get_all_messages", IF err = "" THEN "info" ELSE "error", err, None))

\* a message like test_message of main()
StoreMessage(user, status) ==
    [k \in Columns |->
        CASE k = "User ID" -> Str(user)
          [] k = "Status" -> status
          [] k = "Log in" -> Str("02/18/25 8:45:14 AM")
          [] k = "Last Request" -> Str("02/18/25 11:22:37 AM")
          [] OTHER -> Str("Job Summary Inquiry")]

\* the messages a caller passes: complete ones (a str, an int or None as
\* Status) and one that lacks a key
StoreMessages ==
    {StoreMessage("cclemens", Str("green")), StoreMessage("bwendt", Str("red")),
     StoreMessage("bwendt", Int_(7)), StoreMessage("cclemens", None)}
    \cup {[k \in Columns \ {"Description"} |-> Str("x")]}

-----------------------------------------------------------------------------
(* The producer: producers/producer_mee.py *)

\* the rosters of generate_messages the model draws from
Users == {"ajurek", "bwendt"}
Statuses == {"green", "red"}

\* the keys of a generated message
EventKeys == {"User_ID", "Status", "Log_in", "Last_Request", "Description"}

\* a message generate_messages yields
Event(user, status) ==
    [k \in EventKeys |->
        CASE k = "User_ID" -> Str(user)
          [] k = "Status" -> Str(status)
          [] k = "Log_in" -> Str("02/18/2025 08:49")
          [] k = "Last_Request" -> Str("02/18/2025 11:42")
          [] OTHER -> Str("Invoice Entry - Brief Mode")]

Events == {Event(u, s) : u \in Users, s \in Statuses}

\* json.dumps of a dict: a JSON text holding an object
JsonDumps(m) == [json |-> [object |-> m]]

\* text.encode("utf-8")
Utf8(text) == [utf8 |-> text]

\* the value_serializer of the KafkaProducer
value_serializer(m) == Utf8(JsonDumps(m))

\* sys.exit(code) before the streaming try block
Exit(code, why) ==
    /\ ppc' = "Shutdown"
    /\ exitCode' = code
    /\ endedBy' = why

\* the except and finally clauses of STEP 5: the exception is logged, the
\* producer is closed if the variable still holds it, and main() returns
Finally(why) ==
    /\ ppc' = "Shutdown"
    /\ endedBy' = why
    /\ client' = IF producer # "None" THEN "closed" ELSE client
    /\ exitCode' = 0

\* STEP 1: read the environment variables
ReadConfig ==
    /\ ppc = "config"
    /\ \E ok \in BOOLEAN :
          IF ok THEN ppc' = "prepare" /\ UNCHANGED <<endedBy, exitCode>>
                ELSE Exit(1, "ConfigError")
    /\ UNCHANGED <<producer, client, topicCalls, sendCalls, fileLines, published,
                   loopMessage, nGenerated, warned>>
    /\ UNCHANGED <<storeVars, consVars>>

\* STEP 2 and 3: delete the live data file, make its folders
PrepareFile ==
    /\ ppc = "prepare"
    /\ \E outcome \in {"ok", "unlink fails", "makedirs fails"} :
          CASE outcome = "ok" ->
                  /\ fileLines' = <<>>
                  /\ ppc' = "connect"
                  /\ UNCHANGED <<endedBy, exitCode>>
            [] outcome = "unlink fails" ->
                  /\ fileLines # <<>>
                  /\ UNCHANGED fileLines
                  /\ Exit(2, "OSError")
            [] OTHER ->
                  /\ fileLines' = <<>>
                  /\ Exit(2, "OSError")
    /\ UNCHANGED <<producer, client, topicCalls, sendCalls, published,
                   loopMessage, nGenerated, warned>>
    /\ UNCHANGED <<storeVars, consVars>>

\* how verify_services() (utils.utils_producer) reports that Kafka cannot be
\* reached: it raises, the failure the producer's and the consumer's try
\* blocks are written for
VerifyFailure == "verify_services raises"

\* what verify_services() and KafkaProducer(...) of STEP 4 can do
ConnectOutcomes == {"ok", VerifyFailure, "KafkaProducer raises"}

\* STEP 4 that exits when Kafka cannot be reached
ConnectStep_exit(outcome) ==
    /\ IF outcome = "ok"
         THEN /\ producer' = "client"
              /\ client' = "open"
              /\ ppc' = "topic"
              /\ UNCHANGED <<warned, endedBy, exitCode>>
         ELSE /\ warned' = outcome
              /\ Exit(3, outcome)
              /\ UNCHANGED <<producer, client>>

\* STEP 4, first try block: any exception leaves producer = None
ConnectStep(outcome) ==
    /\ IF outcome = "ok"
         THEN /\ producer' = "client"
              /\ client' = "open"
              /\ UNCHANGED warned
         ELSE /\ producer' = "None"
              /\ UNCHANGED client
              /\ warned' = outcome
    /\ ppc' = "topic"
    /\ UNCHANGED <<endedBy, exitCode>>

Connect ==
    /\ ppc = "connect"
    /\ \E outcome \in ConnectOutcomes : ConnectStep(outcome)
    /\ UNCHANGED <<topicCalls, sendCalls, fileLines, published, loopMessage, nGenerated>>
    /\ UNCHANGED <<storeVars, consVars>>

\* STEP 4, second part: create the topic if there is a producer; a failure
\* sets producer = None
CreateTopic ==
    /\ ppc = "topic"
    /\ IF producer # "None"
         THEN /\ topicCalls' = topicCalls + 1
              /\ \E ok \in BOOLEAN :
                    IF ok THEN UNCHANGED <<producer, warned>>
                          ELSE producer' = "None" /\ warned' = "create_kafka_topic raises"
         ELSE UNCHANGED <<topicCalls, producer, warned>>
    /\ ppc' = "generate"
    /\ UNCHANGED <<client, sendCalls, fileLines, published, loopMessage, nGenerated,
                   endedBy, exitCode>>
    /\ UNCHANGED <<storeVars, consVars>>

\* the body of the loop of STEP 5 publishing before it writes the file
LoopBody_send_first == <<"generate", "send", "write", "sleep">>

\* the body of the loop of STEP 5, in the order of the code
LoopBody == <<"generate", "write", "send", "sleep">>

Streaming == {LoopBody[i] : i \in 1..Len(LoopBody)}

\* the step after `step` in the loop, the first one after the last
AfterStep(step) ==
    LET i == CHOOSE j \in 1..Len(LoopBody) : LoopBody[j] = step
    IN LoopBody[(i % Len(LoopBody)) + 1]

\* for message in generate_messages()
Generate ==
    /\ ppc = "generate"
    /\ nGenerated < MaxEvents
    /\ \E m \in Events : loopMessage' = m
    /\ nGenerated' = nGenerated + 1
    /\ ppc' = AfterStep("generate")
    /\ UNCHANGED <<producer, client, topicCalls, sendCalls, fileLines, published,
                   warned, endedBy, exitCode>>
    /\ UNCHANGED <<storeVars, consVars>>

\* with live_data_path.open("a") as f: f.write(json.dumps(message) + "\n")
WriteFile ==
    /\ ppc = "write"
    /\ \E ok \in BOOLEAN :
          IF ok THEN /\ fileLines' = Append(fileLines, JsonDumps(loopMessage))
                     /\ ppc' = AfterStep("write")
                     /\ UNCHANGED <<client, endedBy, exitCode>>
                ELSE /\ UNCHANGED fileLines
                     /\ Finally("OSError")
    /\ UNCHANGED <<producer, topicCalls, sendCalls, published, loopMessage, nGenerated, warned>>
    /\ UNCHANGED <<storeVars, consVars>>

\* producer.send(topic, value=message): an exception leaves the loop
SendStep(ok) ==
    /\ sendCalls' = sendCalls + 1
    /\ IF ok THEN /\ published' = Append(published, value_serializer(loopMessage))
                  /\ ppc' = AfterStep("send")
                  /\ UNCHANGED <<client, endedBy, exitCode>>
            ELSE /\ UNCHANGED published
                 /\ Finally("KafkaError")

\* if producer: producer.send(...)
Send ==
    /\ ppc = "send"
    /\ IF producer # "None"
         THEN \E ok \in BOOLEAN : SendStep(ok)
         ELSE /\ ppc' = AfterStep("send")
              /\ UNCHANGED <<sendCalls, published, client, endedBy, exitCode>>
    /\ UNCHANGED <<producer, topicCalls, fileLines, loopMessage, nGenerated, warned>>
    /\ UNCHANGED <<storeVars, consVars>>

\* time.sleep(interval_secs)
Sleep ==
    /\ ppc = "sleep"
    /\ ppc' = AfterStep("sleep")
    /\ UNCHANGED <<producer, client, topicCalls, sendCalls, fileLines, published,
                   loopMessage, nGenerated, warned, endedBy, exitCode>>
    /\ UNCHANGED <<storeVars, consVars>>

\* Ctrl-C inside the try block of STEP 5
ProducerInterrupt ==
    /\ ppc \in Streaming
    /\ Finally("KeyboardInterrupt")
    /\ UNCHANGED <<producer, topicCalls, sendCalls, fileLines, published, loopMessage,
                   nGenerated, warned>>
    /\ UNCHANGED <<storeVars, consVars>>

ProducerNext ==
    \/ ReadConfig
    \/ PrepareFile
    \/ Connect
    \/ CreateTopic
    \/ Generate
    \/ WriteFile
    \/ Send
    \/ Sleep
    \/ ProducerInterrupt

\* before main() runs: the live data file may be there from an earlier run
ProducerInit ==
    /\ tableExists = FALSE
    /\ rows = <<>>
    /\ seq = 0
    /\ assigned = {}
    /\ returned = None
    /\ log = <<NoLine, NoLine>>
    /\ ppc = "config"
    /\ producer = "None"
    /\ client = "absent"
    /\ topicCalls = 0
    /\ sendCalls = 0
    /\ fileLines \in {<<>>, <<JsonDumps(Event("ajurek", "green"))>>}
    /\ published = <<>>
    /\ loopMessage = None
    /\ nGenerated = 0
    /\ warned = ""
    /\ endedBy = ""
    /\ exitCode = -1
    /\ cpc = "config"
    /\ consumer = "None"
    /\ topicChecked = ""
    /\ user_status_data = <<>>
    /\ delivered = <<>>
    /\ now = 0
    /\ last_update_time = 0
    /\ renderCount = 0
    /\ cEndedBy = ""

SpecProducer == ProducerInit /\ [][ProducerNext]_vars

-----------------------------------------------------------------------------
(* Claims about the producer, checked under SpecProducer *)

\* C6: in every reachable state the payloads published to the broker are,
\* in order, the encodings of a prefix of the lines of the live data file:
\* nothing is published that is not already in the file.
C6_FileBeforePublish ==
    /\ Len(published) <= Len(fileLines)
    /\ \A i \in 1..Len(published) : published[i] = Utf8(fileLines[i])

\* two events are in the file and published, a third is in the file only and
\* its publish is about to be attempted
C6_Witness ==
    /\ ppc = "send"
    /\ producer # "None"
    /\ Len(published) = 2
    /\ Len(fileLines) = 3

\* C7: a publish that fails while the producer streams leaves the producer
\* streaming (so the next event is generated and written); it never moves
\* the producer to Shutdown.
C7_PublishFailureNotFatal ==
    [][(ppc = "send" /\ sendCalls' = sendCalls + 1 /\ published' = published)
          => ppc' \in Streaming]_vars

\* C8: once verify_services or the creation of the KafkaProducer has failed,
\* the producer has no client, never calls create_kafka_topic or send,
\* publishes nothing, goes on to the streaming loop (it leaves it only by an
\* interrupt or a failed file write, never because of the broker), and every
\* message generated is in the file once its write step is done.
C8_DegradedMode ==
    warned \in (ConnectOutcomes \ {"ok"}) =>
        /\ producer = "None"
        /\ client = "absent"
        /\ topicCalls = 0
        /\ sendCalls = 0
        /\ published = <<>>
        /\ ppc \in {"topic", "Shutdown"} \cup Streaming
        /\ ppc = "Shutdown" => endedBy \in {"KeyboardInterrupt", "OSError"}
        /\ ppc \in {"send", "sleep"} =>
              /\ Len(fileLines) = nGenerated
              /\ fileLines[Len(fileLines)] = JsonDumps(loopMessage)

\* the broker could not be verified and two events are in the file
C8_Witness ==
    /\ warned = VerifyFailure
    /\ ppc = "sleep"
    /\ Len(fileLines) = 2
    /\ published = <<>>

\* which of the three failures ended the producer: reading the configuration,
\* preparing the file system, or an error raised in the streaming loop
FailureCase ==
    IF ppc # "Shutdown" THEN "none"
    ELSE IF endedBy = "ConfigError" THEN "config"
    ELSE IF endedBy = "OSError" /\ nGenerated = 0 THEN "filesystem"
    ELSE IF endedBy \in {"OSError", "KafkaError"} THEN "runtime"
    ELSE "none"

\* C11: the producer ends with a non-zero exit code after a configuration
\* failure, after a file-system preparation failure and after a runtime error
\* in the streaming loop, and the three codes differ: 1, 2, and a third code
\* that is neither.
C11_ExitCodes ==
    /\ FailureCase = "config" => exitCode = 1
    /\ FailureCase = "filesystem" => exitCode = 2
    /\ FailureCase = "runtime" => exitCode \notin {0, 1, 2}

\* C18: when the producer has terminated, by whatever path, no KafkaProducer
\* that was opened is still open.
C18_ClientClosedAtShutdown ==
    ppc = "Shutdown" => client # "open"

-----------------------------------------------------------------------------
(* The consumer: consumers/kafka_consumer_mee.py *)

\* seconds between two redraws of the chart in the consume loop
RefreshInterval == 5

\* seconds the consumer may wait for the next message
WaitTimes == {0, 2, 5}

\* the keys of a processed message
ProcessedKeys == EventKeys \cup {"timestamp"}

\* what the broker may deliver: the producer's events, an object with User_ID
\* alone, a JSON array, and bytes that are no JSON
ConsumerPayloads ==
    {value_serializer(e) : e \in Events}
    \cup {value_serializer([k \in {"User_ID"} |-> Str("x")])}
    \cup {Utf8([json |-> [array |-> <<>>]])}
    \cup {Utf8([raw |-> "not json"])}

\* json.loads(x.decode("utf-8")) raises on a text that is no JSON
DeserializeError(payload) == "json" \notin DOMAIN payload.utf8

\* the value_deserializer given to create_kafka_consumer
value_deserializer(payload) == payload.utf8.json

\* message.get raises AttributeError when the JSON value is no object
ProcessError(value) == "object" \notin DOMAIN value

\* process_message with message.get(key, "") in place of message.get(key)
Processed_default_empty(value) ==
    [k \in ProcessedKeys |->
        IF k \in DOMAIN value.object THEN value.object[k] ELSE Str("")]

\* the dict process_message builds: message.get(key) for each key
Processed(value) ==
    [k \in ProcessedKeys |->
        IF k \in DOMAIN value.object THEN value.object[k] ELSE None]

\* user_status_data[user_id] = processed_message, keeping an entry already there
UpdateStatus_keep_first(data, processed) ==
    [u \in DOMAIN data \cup {processed["User_ID"]} |->
        IF u \in DOMAIN data THEN data[u] ELSE processed]

\* user_status_data[user_id] = processed_message
UpdateStatus(data, processed) ==
    [u \in DOMAIN data \cup {processed["User_ID"]} |->
        IF u = processed["User_ID"] THEN processed ELSE data[u]]

\* process_message: what it returns (ret) and the global dict it leaves (data);
\* an exception is logged and None returned
process_message(value) ==
    IF ProcessError(value)
      THEN [ret |-> None, data |-> user_status_data]
      ELSE [ret |-> Processed(value),
            data |-> UpdateStatus(user_status_data, Processed(value))]

\* the except and finally clauses without consumer.close()
ConsumeFinally_no_close(why) ==
    /\ cpc' = "Shutdown"
    /\ cEndedBy' = why
    /\ UNCHANGED consumer

\* the except and finally clauses of consume_messages_from_kafka and of
\* main(): the exception is logged, the consumer is closed if it was created
ConsumeFinally(why) ==
    /\ cpc' = "Shutdown"
    /\ cEndedBy' = why
    /\ consumer' = IF consumer = "open" THEN "closed" ELSE consumer

\* main(): read the configuration
ConsumerReadConfig ==
    /\ cpc = "config"
    /\ \E ok \in BOOLEAN :
          IF ok THEN cpc' = "unlink" /\ UNCHANGED <<consumer, cEndedBy>>
                ELSE ConsumeFinally("ConfigError")
    /\ UNCHANGED <<topicChecked, user_status_data, delivered, now, last_update_time,
                   renderCount>>
    /\ UNCHANGED <<storeVars, prodVars>>

\* main(): if sqlite_path.exists(): sqlite_path.unlink()
StartClean ==
    /\ cpc = "unlink"
    /\ \E ok \in BOOLEAN :
          IF ok THEN /\ tableExists' = FALSE
                     /\ rows' = <<>>
                     /\ seq' = 0
                     /\ assigned' = {}
                     /\ cpc' = "init_db"
                     /\ UNCHANGED <<consumer, cEndedBy>>
                ELSE /\ tableExists
                     /\ UNCHANGED <<tableExists, rows, seq, assigned>>
                     /\ ConsumeFinally("OSError")
    /\ UNCHANGED <<returned, log>>
    /\ UNCHANGED <<topicChecked, user_status_data, delivered, now, last_update_time,
                   renderCount>>
    /\ UNCHANGED prodVars

\* main(): init_db(sqlite_path); what init_db logged is not looked at
InitStore ==
    /\ cpc = "init_db"
    /\ \E connectOk \in BOOLEAN : init_db(connectOk)
    /\ cpc' = "verify"
    /\ UNCHANGED <<consumer, topicChecked, user_status_data, delivered, now,
                   last_update_time, renderCount, cEndedBy>>
    /\ UNCHANGED prodVars

\* Step 1: verify_services()
VerifyServices ==
    /\ cpc = "verify"
    /\ \E ok \in BOOLEAN :
          IF ok THEN cpc' = "create" /\ UNCHANGED <<consumer, cEndedBy>>
                ELSE ConsumeFinally(VerifyFailure)
    /\ UNCHANGED <<topicChecked, user_status_data, delivered, now, last_update_time,
                   renderCount>>
    /\ UNCHANGED <<storeVars, prodVars>>

\* Step 2: create_kafka_consumer(...)
CreateConsumer ==
    /\ cpc = "create"
    /\ \E ok \in BOOLEAN :
          IF ok THEN /\ consumer' = "open"
                     /\ cpc' = "check_topic"
                     /\ UNCHANGED cEndedBy
                ELSE ConsumeFinally("create_kafka_consumer raises")
    /\ UNCHANGED <<topicChecked, user_status_data, delivered, now, last_update_time,
                   renderCount>>
    /\ UNCHANGED <<storeVars, prodVars>>

\* Step 3 that only logs a missing topic and goes on to read
TopicStep_no_raise(available) ==
    /\ topicChecked' = IF available THEN "available" ELSE "missing"
    /\ cpc' = "consuming"
    /\ last_update_time' = now
    /\ UNCHANGED <<consumer, cEndedBy>>

\* Step 3: if not is_topic_available(topic): raise ValueError; then Step 4
\* starts with last_update_time = time.time()
TopicStep(available) ==
    /\ topicChecked' = IF available THEN "available" ELSE "missing"
    /\ IF available
         THEN /\ cpc' = "consuming"
              /\ last_update_time' = now
              /\ UNCHANGED <<consumer, cEndedBy>>
         ELSE /\ ConsumeFinally("ValueError: topic does not exist")
              /\ UNCHANGED last_update_time

CheckTopic ==
    /\ cpc = "check_topic"
    /\ \E available \in BOOLEAN : TopicStep(available)
    /\ UNCHANGED <<user_status_data, delivered, now, renderCount>>
    /\ UNCHANGED <<storeVars, prodVars>>

\* a redraw at every message, whatever time has passed
RenderStep_every_message(renderOk) ==
    IF renderOk
      THEN /\ renderCount' = renderCount + 1
           /\ last_update_time' = now'
           /\ UNCHANGED <<cpc, consumer, cEndedBy>>
      ELSE /\ ConsumeFinally("RenderError")
           /\ UNCHANGED <<renderCount, last_update_time>>

\* the redraw at the end of an iteration: update_chart, plt.draw, plt.pause
\* when RefreshInterval seconds have passed since the last one
RenderStep(renderOk) ==
    IF now' - last_update_time >= RefreshInterval
      THEN IF renderOk
             THEN /\ renderCount' = renderCount + 1
                  /\ last_update_time' = now'
                  /\ UNCHANGED <<cpc, consumer, cEndedBy>>
             ELSE /\ ConsumeFinally("RenderError")
                  /\ UNCHANGED <<renderCount, last_update_time>>
      ELSE UNCHANGED <<renderCount, last_update_time, cpc, consumer, cEndedBy>>

\* Step 4, one iteration of `for message in consumer`: the payload is
\* deserialized by the consumer, processed, inserted, and the chart redrawn
Receive ==
    /\ cpc = "consuming"
    /\ Len(delivered) < MaxMsgs
    /\ \E payload \in ConsumerPayloads, wait \in WaitTimes, renderOk \in BOOLEAN :
          /\ delivered' = Append(delivered, payload)
          /\ now' = now + wait
          /\ IF DeserializeError(payload)
               THEN /\ ConsumeFinally("JSONDecodeError")
                    /\ UNCHANGED <<user_status_data, last_update_time, renderCount>>
                    /\ UNCHANGED storeVars
               ELSE LET done == process_message(value_deserializer(payload)) IN
                    /\ user_status_data' = done.data
                    /\ IF done.ret # None
                         THEN \E connectOk \in BOOLEAN : insert_message(done.ret, connectOk)
                         ELSE UNCHANGED storeVars
                    /\ RenderStep(renderOk)
    /\ UNCHANGED topicChecked
    /\ UNCHANGED prodVars

\* Ctrl-C: KeyboardInterrupt passes the finally clause of the consume
\* routine and is caught in main()
ConsumerInterrupt ==
    /\ cpc # "Shutdown"
    /\ ConsumeFinally("KeyboardInterrupt")
    /\ UNCHANGED <<topicChecked, user_status_data, delivered, now, last_update_time,
                   renderCount>>
    /\ UNCHANGED <<storeVars, prodVars>>

ConsumerNext ==
    \/ ConsumerReadConfig
    \/ StartClean
    \/ InitStore
    \/ VerifyServices
    \/ CreateConsumer
    \/ CheckTopic
    \/ Receive
    \/ ConsumerInterrupt

\* a row left in the database file by an earlier run
OldRow ==
    [c \in Columns \cup {"id"} |->
        IF c = "id" THEN Int_(1) ELSE StoreMessage("cclemens", Str("green"))[c]]

\* before main() runs: the database file may be there from an earlier run
ConsumerInit ==
    /\ tableExists \in BOOLEAN
    /\ rows = IF tableExists THEN <<OldRow>> ELSE <<>>
    /\ seq = IF tableExists THEN 1 ELSE 0
    /\ assigned = IF tableExists THEN {1} ELSE {}
    /\ returned = None
    /\ log = <<NoLine, NoLine>>
    /\ ppc = "config"
    /\ producer = "None"
    /\ client = "absent"
    /\ topicCalls = 0
    /\ sendCalls = 0
    /\ fileLines = <<>>
    /\ published = <<>>
    /\ loopMessage = None
    /\ nGenerated = 0
    /\ warned = ""
    /\ endedBy = ""
    /\ exitCode = -1
    /\ cpc = "config"
    /\ consumer = "None"
    /\ topicChecked = ""
    /\ user_status_data = <<>>
    /\ delivered = <<>>
    /\ now = 0
    /\ last_update_time = 0
    /\ renderCount = 0
    /\ cEndedBy = ""

SpecConsumer == ConsumerInit /\ [][ConsumerNext]_vars

-----------------------------------------------------------------------------
(* Claims about the consumer, checked under SpecConsumer *)

\* a delivered payload that is an event with all five fields
WellFormed(payload) ==
    /\ ~DeserializeError(payload)
    /\ ~ProcessError(value_deserializer(payload))
    /\ EventKeys \subseteq DOMAIN value_deserializer(payload).object

\* the delivered payloads process_message handled without an exception, as
\* it processed them, in order of arrival
ProcessedEvents ==
    LET ok(payload) == ~DeserializeError(payload) /\ ~ProcessError(value_deserializer(payload))
        kept == SelectSeq(delivered, ok)
    IN [i \in 1..Len(kept) |-> Processed(value_deserializer(kept[i]))]

\* the snapshot holds, for each user id processed, the last event processed
\* for it, and nothing else
LastWriteWins ==
    LET evs == ProcessedEvents IN
    /\ \A i \in 1..Len(evs) : evs[i]["User_ID"] \in DOMAIN user_status_data
    /\ \A u \in DOMAIN user_status_data :
          \E i \in 1..Len(evs) :
              /\ evs[i]["User_ID"] = u
              /\ user_status_data[u] = evs[i]
              /\ \A j \in (i + 1)..Len(evs) : evs[j]["User_ID"] # u

\* C1: once the store is initialised, the Consuming loop entered and only
\* well-formed events delivered (the database being reachable), the store
\* holds one row per
\* delivered event and the snapshot one entry per distinct user id, the
\* last event delivered for that user.
C1_EndToEnd ==
    ( /\ topicChecked = "available"
      /\ tableExists
      /\ \A i \in 1..Len(delivered) : WellFormed(delivered[i])
      /\ \A i \in 1..2 : log[i].err # "OperationalError: unable to open" )
    => /\ Len(rows) = Len(delivered)
       /\ LastWriteWins

\* C5: in every reachable state the snapshot maps each user id processed so
\* far to the event processed last for it, whole and unmerged, and has no
\* entry for any other user id.
C5_LastWriteWins == LastWriteWins

\* bwendt was green, then red: the snapshot holds the red event
C5_Witness ==
    /\ Len(delivered) >= 2
    /\ delivered[1] = value_serializer(Event("bwendt", "green"))
    /\ delivered[2] = value_serializer(Event("bwendt", "red"))
    /\ Str("bwendt") \in DOMAIN user_status_data
    /\ user_status_data[Str("bwendt")]["Status"] = Str("red")

\* C9: a received message leaves the consumer in the Consuming loop whatever
\* fails in decoding, processing or inserting it (a failed redraw apart).
C9_PerMessageIsolation ==
    [][(cpc = "consuming" /\ Len(delivered') = Len(delivered) + 1
          /\ cEndedBy' # "RenderError")
        => cpc' = "consuming"]_vars

\* C10: when the topic is found missing the consumer is shut down with the
\* ValueError logged and its KafkaConsumer closed, no message was read, and
\* no insert and no update of the snapshot was made.
C10_MissingTopicFailsFast ==
    topicChecked = "missing" =>
        /\ cpc = "Shutdown"
        /\ cEndedBy = "ValueError: topic does not exist"
        /\ consumer = "closed"
        /\ delivered = <<>>
        /\ renderCount = 0
        /\ DOMAIN user_status_data = {}
        /\ rows = <<>>
        /\ \A i \in 1..2 : log[i].op # "insert_message"

\* the store was initialised, the consumer created, and the topic was missing
C10_Witness ==
    /\ topicChecked = "missing"
    /\ tableExists
    /\ cpc = "Shutdown"

\* the payload delivered last, when it decodes to a JSON object
LastIsObject ==
    /\ delivered # <<>>
    /\ ~DeserializeError(delivered[Len(delivered)])
    /\ ~ProcessError(value_deserializer(delivered[Len(delivered)]))

\* C14: for a payload that is a JSON object, process_message returns an
\* event (the loop hands it to insert_message and keeps it in the snapshot)
\* whose five fields are the payload's value where the key is present and
\* None where it is absent; processing it raises nothing.
C14_ProcessTotal ==
    LastIsObject =>
        LET payload == value_deserializer(delivered[Len(delivered)]).object
            event == log[2].arg
        IN /\ log[2].op = "insert_message"
           /\ \A k \in EventKeys :
                 event[k] = IF k \in DOMAIN payload THEN payload[k] ELSE None
           /\ event["User_ID"] \in DOMAIN user_status_data
           /\ user_status_data[event["User_ID"]] = event
           /\ cEndedBy \in {"", "RenderError", "KeyboardInterrupt"}

\* {"User_ID": "x"} was delivered last: the event has "x" and None elsewhere
C14_Witness ==
    /\ LastIsObject
    /\ DOMAIN value_deserializer(delivered[Len(delivered)]).object = {"User_ID"}
    /\ log[2].arg["User_ID"] = Str("x")
    /\ \A k \in EventKeys \ {"User_ID"} : log[2].arg[k] = None

\* C15: no row of the store and no entry of the snapshot has a null user id
\* or a null status.
C15_PresenceInvariant ==
    /\ \A i \in 1..Len(rows) : rows[i]["User ID"] # None /\ rows[i]["Status"] # None
    /\ \A u \in DOMAIN user_status_data :
          /\ u # None
          /\ user_status_data[u]["User_ID"] # None
          /\ user_status_data[u]["Status"] # None

\* C16: a redraw made by the Consuming loop happens RefreshInterval seconds
\* or more after the time kept in last_update_time, which is the time of the
\* redraw before it, or of the start of the loop when there was none; so
\* two redraws are never less than RefreshInterval apart.
C16_RenderRateBounded ==
    [][ /\ renderCount' # renderCount =>
              /\ renderCount' = renderCount + 1
              /\ now' - last_update_time >= RefreshInterval
              /\ last_update_time' = now'
        /\ last_update_time' # last_update_time =>
              \/ renderCount' = renderCount + 1
              \/ cpc = "check_topic" /\ cpc' = "consuming" /\ last_update_time' = now' ]_vars

\* three messages were read and two of them were followed by a redraw
C16_Witness ==
    /\ Len(delivered) = 3
    /\ renderCount = 2
    /\ now >= 2 * RefreshInterval

\* C17: the consumer is in the Consuming loop only with the store
\* initialised, and insert_message is called only then.
C17_InitGatesConsuming ==
    /\ cpc = "consuming" => tableExists
    /\ \A i \in 1..2 : log[i].op = "insert_message" => tableExists

\* C19: when the consumer has terminated, a KafkaConsumer that was created
\* has been closed; none is left open.
C19_SubscriptionReleased ==
    cpc = "Shutdown" =>
        /\ consumer # "open"
        /\ topicChecked # "" => consumer = "closed"

\* the loop was ended by an error raised while redrawing, the consumer closed
C19_Witness ==
    /\ cpc = "Shutdown"
    /\ cEndedBy = "RenderError"
    /\ consumer = "closed"

-----------------------------------------------------------------------------
(* SpecConsumerLive: the consumer on a topic that may fall silent *)

\* RefreshInterval seconds pass while `for message in consumer` waits for a
\* message that does not come.  The thread is inside the consumer's
\* iterator: the timer FuncAnimation set up in main() runs update_chart only
\* from the GUI event loop, which this program enters only in plt.pause of
\* a redraw, so nothing is drawn while it waits.  Time is not counted
\* beyond the first interval that is due.
Silence ==
    /\ cpc = "consuming"
    /\ now - last_update_time < RefreshInterval
    /\ now' = now + RefreshInterval
    /\ UNCHANGED <<cpc, consumer, topicChecked, user_status_data, delivered,
                   last_update_time, renderCount, cEndedBy>>
    /\ UNCHANGED <<storeVars, prodVars>>

ConsumerLiveNext ==
    \/ ConsumerNext
    \/ Silence

\* time passes whatever the topic does; no message and no interrupt is owed
SpecConsumerLive ==
    ConsumerInit /\ [][ConsumerLiveNext]_vars /\ WF_vars(Silence)

\* a redraw of the snapshot is due: the loop runs, the snapshot has an entry,
\* and RefreshInterval seconds have passed since the last redraw
RenderDue ==
    /\ cpc = "consuming"
    /\ DOMAIN user_status_data # {}
    /\ now - last_update_time >= RefreshInterval

\* C12: whenever a redraw is due it is eventually made (or the consumer has
\* left the Consuming loop), even when no further message arrives.
C12_RenderLiveness ==
    RenderDue ~> (cpc # "consuming" \/ now - last_update_time < RefreshInterval)

-----------------------------------------------------------------------------
(* SpecStore: a caller of the store's four functions *)

StoreInit ==
    /\ tableExists = FALSE
    /\ rows = <<>>
    /\ seq = 0
    /\ assigned = {}
    /\ returned = None
    /\ log = <<NoLine, NoLine>>
    /\ ppc = "config"
    /\ producer = "None"
    /\ client = "absent"
    /\ topicCalls = 0
    /\ sendCalls = 0
    /\ fileLines = <<>>
    /\ published = <<>>
    /\ loopMessage = None
    /\ nGenerated = 0
    /\ warned = ""
    /\ endedBy = ""
    /\ exitCode = -1
    /\ cpc = "config"
    /\ consumer = "None"
    /\ topicChecked = ""
    /\ user_status_data = <<>>
    /\ delivered = <<>>
    /\ now = 0
    /\ last_update_time = 0
    /\ renderCount = 0
    /\ cEndedBy = ""

InitDb ==
    /\ \E connectOk \in BOOLEAN : init_db(connectOk)
    /\ UNCHANGED <<prodVars, consVars>>

InsertMessage ==
    /\ \E msg \in StoreMessages, connectOk \in BOOLEAN :
          /\ seq < MaxId
          /\ insert_message(msg, connectOk)
    /\ UNCHANGED <<prodVars, consVars>>

DeleteMessage ==
    /\ \E message_id \in 1..(MaxId + 1), connectOk \in BOOLEAN :
          delete_message(message_id, connectOk)
    /\ UNCHANGED <<prodVars, consVars>>

GetAllMessages ==
    /\ \E connectOk \in BOOLEAN : get_all_messages(connectOk)
    /\ UNCHANGED <<prodVars, consVars>>

StoreNext == InitDb \/ InsertMessage \/ DeleteMessage \/ GetAllMessages

SpecStore == StoreInit /\ [][StoreNext]_vars

-----------------------------------------------------------------------------
(* Claims about the store, checked under SpecStore *)

InfoLine(line, op) == line.op = op /\ line.level = "info"
HasId(rs, n) == \E i \in 1..Len(rs) : rs[i]["id"] = Int_(n)
Last(s) == s[Len(s)]

\* C2: a successful insert_message(m) followed by a successful
\* get_all_messages() returns a list whose last record has the five columns
\* equal, as strings, to m's five fields, and that record comes after every
\* other record: it is last and the ids before it are smaller and ascending.
C2_RoundTrip ==
    (InfoLine(log[1], "insert_message") /\ InfoLine(log[2], "get_all_messages")) =>
        /\ Len(returned) >= 1
        /\ \A c \in Columns : PyStr(Last(returned)[c]) = PyStr(log[1].arg[c])
        /\ \A c \in Columns : IsInt(log[1].arg[c]) \/ Last(returned)[c] = log[1].arg[c]
        /\ \A i, j \in 1..Len(returned) : i < j => returned[i]["id"].i < returned[j]["id"].i

\* an int was inserted as Status and came back as its text, behind an older row
C2_Witness ==
    /\ InfoLine(log[1], "insert_message") /\ InfoLine(log[2], "get_all_messages")
    /\ IsInt(log[1].arg["Status"])
    /\ Len(returned) >= 2
    /\ Last(returned)["Status"] = Str("7")

\* C3: after a successful init_db the table exists and is empty whatever ran
\* before, its id sequence starts again, a get_all_messages() that follows
\* returns [], and a second init_db in succession leaves that same state.
C3_InitCleanSlate ==
    /\ InfoLine(log[2], "init_db") =>
            tableExists /\ rows = <<>> /\ seq = 0 /\ SelectAll(rows) = <<>>
    /\ (InfoLine(log[1], "init_db") /\ log[2].op = "get_all_messages") => returned = <<>>
    /\ (InfoLine(log[1], "init_db") /\ InfoLine(log[2], "init_db")) =>
            <<tableExists, rows, seq>> = <<TRUE, <<>>, 0>>

\* init_db ran right after a successful insert
C3_Witness ==
    /\ InfoLine(log[1], "insert_message")
    /\ InfoLine(log[2], "init_db")
    /\ rows = <<>>

\* C4: delete_message(id) on a store that holds id removes that row and no
\* other (the rest keep their order); when id is not in the store the rows
\* are unchanged and, the table being there and the database reachable, the
\* call logs no error.
C4_Delete ==
    [][log'[2].op = "delete_message" =>
        LET id == log'[2].arg.id IN
        /\ (HasId(rows, id) /\ log'[2].level = "info") =>
              \E i \in 1..Len(rows) :
                  /\ rows[i]["id"] = Int_(id)
                  /\ rows' = SubSeq(rows, 1, i - 1) \o SubSeq(rows, i + 1, Len(rows))
        /\ ~HasId(rows, id) =>
              /\ rows' = rows
              /\ (tableExists /\ log'[2].err # "OperationalError: unable to open") =>
                    (log'[2].level = "info" /\ log'[2].err = "")
        /\ seq' = seq /\ tableExists' = tableExists
    ]_vars

\* the row just inserted was deleted and an older row is still there
C4_Witness ==
    /\ InfoLine(log[1], "insert_message")
    /\ InfoLine(log[2], "delete_message")
    /\ log[2].arg.id = seq
    /\ ~HasId(rows, seq)
    /\ Len(rows) >= 1

\* C13: between two successful init_db calls, every successful insert gets
\* an integer id above every id given before it, whatever was deleted in
\* between; so no id is given twice and no id in the table is repeated.
C13_StoreIdentity ==
    [][ /\ Len(rows') = Len(rows) + 1 =>
              LET id == Last(rows')["id"] IN
              /\ IsInt(id)
              /\ \A a \in assigned : id.i > a
              /\ \A i \in 1..Len(rows) : rows[i]["id"].i < id.i
              /\ assigned' = assigned \cup {id.i}
        /\ assigned' # assigned =>
              \/ Len(rows') = Len(rows) + 1
              \/ InfoLine(log'[2], "init_db") /\ assigned' = {} ]_vars

\* id 2 was the largest id, was deleted, and the insert after it got id 3
C13_Witness ==
    /\ InfoLine(log[1], "delete_message") /\ log[1].arg.id = 2
    /\ InfoLine(log[2], "insert_message")
    /\ assigned = {1, 2, 3}
    /\ HasId(rows, 1) /\ ~HasId(rows, 2) /\ HasId(rows, 3)

\* C20: insert_message of a message that lacks one of the five keys adds no
\* row, leaves the rows, the id sequence and the table as they were, logs
\* the error and returns None to the caller.
C20_FailedInsertNoChange ==
    [][(log'[2].op = "insert_message" /\ ~(Columns \subseteq DOMAIN log'[2].arg)) =>
        /\ rows' = rows
        /\ seq' = seq
        /\ assigned' = assigned
        /\ tableExists' = tableExists
        /\ log'[2].level = "error"
        /\ returned' = None
    ]_vars

\* a message without Description was refused after a successful insert,
\* the table being there and the database reachable
C20_Witness ==
    /\ InfoLine(log[1], "insert_message")
    /\ log[2].op = "insert_message"
    /\ log[2].err = "KeyError"
    /\ "Description" \notin DOMAIN log[2].arg
    /\ Len(rows) >= 1
    /\ Last(rows)["id"] = Int_(seq)

====
